---- MODULE Spec2Model ----
(***************************************************************************)
(* The stack-safe memoized task executor of library/dynamic.rs: the memo   *)
(* store, the Subtasker handed to a task, and the execute loop, driven by  *)
(* three tasks: a Fibonacci-style task (two subtasker.solve calls, the     *)
(* shape of day10's Part2Solver), day7's Day7Solver (precheck, then a loop *)
(* of subtasker.solve calls) and an arbitrary task that may return any     *)
(* outcome the Task contract allows.                                       *)
(***************************************************************************)
EXTENDS Integers, Sequences, FiniteSets, TLC

\* ---------------------------------------------------------------- bounds
MaxGoal == 10   \* the Fibonacci task is run for every goal 0..MaxGoal
MaxBag == 2     \* day7 bags and the arbitrary task's keys are 0..MaxBag
MaxVal == 1     \* the arbitrary task's values and errors are 0..MaxVal
MaxLen == 2     \* longest goal sequence handed to precheck on its own
MaxPeriod == 3  \* mask texts repeat a pattern of at most this many characters

Keys == 0 .. MaxGoal
Bags == 0 .. MaxBag
Vals == 0 .. MaxVal
CountCap == 2 * MaxBag + 6

NoKey == 0 - 1
None == << >>
Some(v) == << v >>

Range(s) == { s[i] : i \in DOMAIN s }
EmptyStore == [k \in {} |-> 0]
Sat(n) == IF n > CountCap THEN CountCap ELSE n

\* ------------------------------------------------------------ memo store
\* add, were it to drop the new solution.
add_Dropped(s, goal, solution) ==
    [store |-> s, old |-> IF goal \in DOMAIN s THEN Some(s[goal]) ELSE None]

\* add, were it to insert only when the goal has no entry yet.
add_KeepsOld(s, goal, solution) ==
    [store |-> [k \in (DOMAIN s) \cup {goal} |-> IF k \in DOMAIN s THEN s[k] ELSE solution],
     old |-> IF goal \in DOMAIN s THEN Some(s[goal]) ELSE None]

\* add, were it to insert the default value in place of the solution.
add_Default(s, goal, solution) ==
    [store |-> [k \in (DOMAIN s) \cup {goal} |-> IF k = goal THEN 0 ELSE s[k]],
     old |-> IF goal \in DOMAIN s THEN Some(s[goal]) ELSE None]

\* SubtaskStore::add for HashMap / BTreeMap: insert, returning the old value.
add(s, goal, solution) ==
    [store |-> [k \in (DOMAIN s) \cup {goal} |-> IF k = goal THEN solution ELSE s[k]],
     old |-> IF goal \in DOMAIN s THEN Some(s[goal]) ELSE None]

\* get, were it never to find the entry.
get_None(s, goal) == None

\* SubtaskStore::get
get(s, goal) == IF goal \in DOMAIN s THEN Some(s[goal]) ELSE None

\* contains, were it to tell whether the store has any entry at all.
contains_NonEmpty(s, goal) == DOMAIN s # {}

\* SubtaskStore::contains (contains_key)
contains(s, goal) == goal \in DOMAIN s

\* -------------------------------------------------------------- outcomes
\* Result<V, TaskInterrupt<K, E>> of one task.solve, with the number of
\* accumulation steps ("count += ...") the invocation performed and the
\* order in which it went through its sub-goals.
TaskOk(v, n) == [tag |-> "Ok", val |-> v, adds |-> n, order |-> << >>]
TaskError(e, n) == [tag |-> "Error", val |-> e, adds |-> n, order |-> << >>]
TaskDependency(k, n) == [tag |-> "Dependency", val |-> k, adds |-> n, order |-> << >>]

\* ------------------------------------------------------------- Subtasker
\* precheck, were it to go through every goal and report the last missing one.
Subtasker_precheck_LastMissing(s, goals) ==
    LET missing == { i \in DOMAIN goals : goals[i] \notin DOMAIN s }
    IN  IF missing = {}
        THEN [tag |-> "Ok", key |-> NoKey, examined |-> Len(goals)]
        ELSE [tag |-> "Dependency",
              key |-> goals[CHOOSE i \in missing : \A j \in missing : j <= i],
              examined |-> Len(goals)]

\* Subtasker::precheck: try_for_each over the goals, stopping at the first
\* goal the store does not contain.  examined counts the goals looked at.
RECURSIVE try_for_each(_, _, _)
try_for_each(s, goals, i) ==
    IF i > Len(goals)
    THEN [tag |-> "Ok", key |-> NoKey, examined |-> i - 1]
    ELSE IF contains(s, goals[i])
         THEN try_for_each(s, goals, i + 1)
         ELSE [tag |-> "Dependency", key |-> goals[i], examined |-> i]

Subtasker_precheck(s, goals) == try_for_each(s, goals, 1)

\* solve, were it to report every sub-goal as missing.
Subtasker_solve_AlwaysMissing(s, goal) == [tag |-> "Dependency", val |-> goal]

\* solve, were it to answer a missing sub-goal with a default value.
Subtasker_solve_Default(s, goal) ==
    IF goal \in DOMAIN s
    THEN [tag |-> "Ok", val |-> s[goal]]
    ELSE [tag |-> "Ok", val |-> 0]

\* Subtasker::solve: store.get(&goal).ok_or(Dependency { key: goal })
Subtasker_solve(s, goal) ==
    IF get(s, goal) # None
    THEN [tag |-> "Ok", val |-> get(s, goal)[1]]
    ELSE [tag |-> "Dependency", val |-> goal]

\* ----------------------------------------------------------------- tasks
\* A Fibonacci-style Task::solve: the base goals answer at once, any other
\* goal asks the subtasker for its two sub-goals, each with `?`.
Fib_solve(n, s) ==
    IF n <= 1
    THEN TaskOk(n, 0)
    ELSE LET a == Subtasker_solve(s, n - 1)
         IN  IF a.tag = "Dependency"
             THEN TaskDependency(a.val, 0)
             ELSE LET b == Subtasker_solve(s, n - 2)
                  IN  IF b.tag = "Dependency"
                      THEN TaskDependency(b.val, 0)
                      ELSE TaskOk(a.val + b.val, 0)

\* const SHINY_GOLD: the goal day7's part2 hands to execute.
SHINY_GOLD == 0

\* The count a rule gives for an inner bag (read from the puzzle input).
Num(outer, inner) == 1 + ((outer + inner) % 2)

\* Rules { bags }: a rule for the bags of D, each rule's contents a map from
\* inner bag to count.
Rules(D, inner) == [b \in D |-> [i \in inner[b] |-> Num(b, i)]]

\* The orders in which a HashMap<Bag, usize> may hand out its keys.
Orders(S) ==
    { q \in [1 .. Cardinality(S) -> S] : \A i, j \in DOMAIN q : q[i] = q[j] => i = j }

\* The loop of Day7Solver::solve:
\*   for (&inner_bag, &num) in &rule.contents {
\*       let &inner_count = subtasker.solve(inner_bag)?;
\*       count += (1 + inner_count) * num; }
RECURSIVE Day7_loop(_, _, _, _, _)
Day7_loop(contents, s, order, i, count) ==
    IF i > Len(order)
    THEN TaskOk(count, i - 1)
    ELSE LET r == Subtasker_solve(s, order[i])
         IN  IF r.tag = "Dependency"
             THEN TaskDependency(r.val, i - 1)
             ELSE Day7_loop(contents, s, order, i + 1,
                            count + (1 + r.val) * contents[order[i]])

\* Day7Solver::solve, were it to go into its loop without the precheck.
Day7Solver_solve_NoPrecheck(rules, bag, s, order) ==
    IF bag \notin DOMAIN rules
    THEN TaskError(bag, 0)
    ELSE [Day7_loop(rules[bag], s, order, 1, 0) EXCEPT !.order = order]

\* Day7Solver::solve, with the contents iterated in the given order.
Day7Solver_solve(rules, bag, s, order) ==
    IF bag \notin DOMAIN rules
    THEN TaskError(bag, 0)
    ELSE LET pre == Subtasker_precheck(s, order)
         IN  IF pre.tag = "Dependency"
             THEN [TaskDependency(pre.key, 0) EXCEPT !.order = order]
             ELSE [Day7_loop(rules[bag], s, order, 1, 0) EXCEPT !.order = order]

\* Any Task::solve at all: it returns a value, an error, or a Dependency it
\* got from the subtasker (Dependency has private fields, so a task cannot
\* build one itself).
Any_solve(s) ==
    { TaskOk(v, 0) : v \in Vals } \cup { TaskError(e, 0) : e \in Vals } \cup
    { TaskDependency(Subtasker_solve(s, k).val, 0) :
        k \in { x \in Bags : Subtasker_solve(s, x).tag = "Dependency" } }

\* The outcomes task.solve(&goal, &subtasker) can have.  Day7Solver goes
\* through rule.contents in whatever order the HashMap yields, so every
\* order is allowed at every invocation.
Task_solve(t, g, s) ==
    CASE t.kind = "fib" -> { Fib_solve(g, s) }
      [] t.kind = "day7" ->
            IF g \in DOMAIN t.rules
            THEN { Day7Solver_solve(t.rules, g, s, order) :
                     order \in Orders(DOMAIN t.rules[g]) }
            ELSE { Day7Solver_solve(t.rules, g, s, << >>) }
      [] OTHER -> Any_solve(s)

\* ----------------------------------------------------------------- state
VARIABLES
    task,              \* the task handed to execute
    goal,              \* execute's goal argument
    seeded,            \* execute's store argument, as the caller passed it
    store,             \* subtasker.store
    dependency_stack,  \* the Vec of goals waiting for a sub-goal
    current_goal,      \* the goal of the next task.solve
    result,            \* what execute returned, or "running"
    last,              \* history: the latest task.solve, with the state it ran in
    calls,             \* history: task.solve invocations per goal
    okCount,           \* history: task.solve invocations per goal that returned Ok
    adds,              \* history: accumulation steps performed per goal
    requested,         \* history: per goal, the sub-goals it was told are missing, in order
    solved,            \* history: per goal, the value its task.solve returned with Ok
    call               \* the latest direct call of a store or subtasker method

vars == << task, goal, seeded, store, dependency_stack, current_goal, result,
           last, calls, okCount, adds, requested, solved, call >>

Running == [tag |-> "running", val |-> NoKey]
NoCall == [op |-> "none"]
NoLast == [goal |-> NoKey, tag |-> "none", val |-> NoKey, adds |-> 0, order |-> << >>,
           stack |-> << >>, store |-> EmptyStore]
NoTask == [kind |-> "none", rules |-> EmptyStore]

\* contains, were it to look at the top of the stack only.
stack_contains_Top(stack, k) == stack # << >> /\ stack[Len(stack)] = k

\* pop, were it to take the bottom of the stack.
stack_pop_Bottom(stack) ==
    IF stack = << >>
    THEN [stack |-> stack, popped |-> None]
    ELSE [stack |-> Tail(stack), popped |-> Some(Head(stack))]

\* push, were it to leave the stack as it was.
stack_push_Dropped(stack, k) == stack

\* contains, were it to look at the bottom of the stack only.
stack_contains_Bottom(stack, k) == stack # << >> /\ stack[1] = k

\* push, were it to put the goal under the stack.
stack_push_Front(stack, k) == << k >> \o stack

\* Vec::contains, Vec::push, Vec::pop
stack_contains(stack, k) == \E i \in DOMAIN stack : stack[i] = k
stack_push(stack, k) == Append(stack, k)
stack_pop(stack) ==
    IF stack = << >>
    THEN [stack |-> stack, popped |-> None]
    ELSE [stack |-> SubSeq(stack, 1, Len(stack) - 1), popped |-> Some(stack[Len(stack)])]

\* execute, were it to answer from the store when the store has the goal.
Init_Bypass ==
    /\ task = [kind |-> "any", rules |-> EmptyStore] /\ goal \in Bags
    /\ \E D \in SUBSET Bags : seeded \in [D -> Vals]
    /\ store = seeded
    /\ dependency_stack = << >>
    /\ current_goal = goal
    /\ result = IF goal \in DOMAIN seeded
                THEN [tag |-> "Ok", val |-> seeded[goal]]
                ELSE Running
    /\ last = NoLast
    /\ calls = [k \in Keys |-> 0]
    /\ okCount = [k \in Keys |-> 0]
    /\ adds = [k \in Keys |-> 0]
    /\ requested = [k \in Keys |-> << >>]
    /\ solved = [k \in Keys |-> None]
    /\ call = NoCall

\* execute, up to the loop: the subtasker takes the caller's store, the
\* dependency stack is empty and the current goal is the goal.
Init ==
    /\ \/ task = [kind |-> "fib", rules |-> EmptyStore] /\ goal \in Keys
          /\ seeded = EmptyStore
       \/ /\ \E D \in SUBSET Bags : \E inner \in [D -> SUBSET Bags] :
                task = [kind |-> "day7", rules |-> Rules(D, inner)]
          /\ goal = SHINY_GOLD /\ seeded = EmptyStore
       \/ task = [kind |-> "any", rules |-> EmptyStore] /\ goal \in Bags
          /\ \E D \in SUBSET Bags : seeded \in [D -> Vals]
    /\ store = seeded
    /\ dependency_stack = << >>
    /\ current_goal = goal
    /\ result = Running
    /\ last = NoLast
    /\ calls = [k \in Keys |-> 0]
    /\ okCount = [k \in Keys |-> 0]
    /\ adds = [k \in Keys |-> 0]
    /\ requested = [k \in Keys |-> << >>]
    /\ solved = [k \in Keys |-> None]
    /\ call = NoCall

\* The bookkeeping of one task.solve(&current_goal, &subtasker) with outcome o.
Invoke(o) ==
    /\ last' = [goal |-> current_goal, tag |-> o.tag, val |-> o.val, adds |-> o.adds,
                order |-> o.order, stack |-> dependency_stack, store |-> store]
    /\ calls' = [calls EXCEPT ![current_goal] = Sat(@ + 1)]
    /\ okCount' = [okCount EXCEPT ![current_goal] = IF o.tag = "Ok" THEN Sat(@ + 1) ELSE @]
    /\ adds' = [adds EXCEPT ![current_goal] = Sat(@ + o.adds)]
    /\ requested' = [requested EXCEPT ![current_goal] =
                        IF o.tag = "Dependency" /\ Len(@) < CountCap
                        THEN Append(@, o.val)
                        ELSE @]
    /\ solved' = [solved EXCEPT ![current_goal] = IF o.tag = "Ok" THEN Some(o.val) ELSE @]

\* The final Ok arm, were it to record the goal's solution before returning.
SolveOkReturn_Records ==
    /\ result = Running
    /\ \E o \in Task_solve(task, current_goal, store) :
         /\ o.tag = "Ok"
         /\ stack_pop(dependency_stack).popped = None
         /\ store' = add(store, current_goal, o.val).store
         /\ result' = [tag |-> "Ok", val |-> o.val]
         /\ Invoke(o)
    /\ UNCHANGED << task, goal, seeded, dependency_stack, current_goal, call >>

\* The Ok arm, were it to return the solution whatever the stack holds.
SolveOkReturn_Early ==
    /\ result = Running
    /\ \E o \in Task_solve(task, current_goal, store) :
         /\ o.tag = "Ok"
         /\ result' = [tag |-> "Ok", val |-> o.val]
         /\ Invoke(o)
    /\ UNCHANGED << task, goal, seeded, store, dependency_stack, current_goal, call >>

\* The final Ok arm, were it to go round the loop again instead of breaking.
SolveOkReturn_Retry ==
    /\ result = Running
    /\ \E o \in Task_solve(task, current_goal, store) :
         /\ o.tag = "Ok"
         /\ stack_pop(dependency_stack).popped = None
         /\ Invoke(o)
    /\ UNCHANGED << task, goal, seeded, store, dependency_stack, current_goal, result, call >>

\* Ok(solution), dependency_stack.pop() is None: break Ok(solution)
SolveOkReturn ==
    /\ result = Running
    /\ \E o \in Task_solve(task, current_goal, store) :
         /\ o.tag = "Ok"
         /\ stack_pop(dependency_stack).popped = None
         /\ result' = [tag |-> "Ok", val |-> o.val]
         /\ Invoke(o)
    /\ UNCHANGED << task, goal, seeded, store, dependency_stack, current_goal, call >>

\* The Ok arm, were it to go round the loop again when the stack is not empty.
SolveOkPop_Retry ==
    /\ result = Running
    /\ \E o \in Task_solve(task, current_goal, store) :
         /\ o.tag = "Ok"
         /\ stack_pop(dependency_stack).popped # None
         /\ Invoke(o)
    /\ UNCHANGED << task, goal, seeded, store, dependency_stack, current_goal, result, call >>

\* The Ok arm, were it to hand control back without recording the solution.
SolveOkPop_NoAdd ==
    /\ result = Running
    /\ \E o \in Task_solve(task, current_goal, store) :
         /\ o.tag = "Ok"
         /\ stack_pop(dependency_stack).popped # None
         /\ dependency_stack' = stack_pop(dependency_stack).stack
         /\ current_goal' = stack_pop(dependency_stack).popped[1]
         /\ Invoke(o)
    /\ UNCHANGED << task, goal, seeded, store, result, call >>

\* The Ok arm, were it to pop the stack and leave the current goal as it was.
SolveOkPop_KeepsCurrent ==
    /\ result = Running
    /\ \E o \in Task_solve(task, current_goal, store) :
         /\ o.tag = "Ok"
         /\ stack_pop(dependency_stack).popped # None
         /\ dependency_stack' = stack_pop(dependency_stack).stack
         /\ store' = add(store, current_goal, o.val).store
         /\ Invoke(o)
    /\ UNCHANGED << task, goal, seeded, current_goal, result, call >>

\* The Ok arm, were it to record the solution under the goal it pops.
SolveOkPop_StoresUnderParent ==
    /\ result = Running
    /\ \E o \in Task_solve(task, current_goal, store) :
         /\ o.tag = "Ok"
         /\ stack_pop(dependency_stack).popped # None
         /\ dependency_stack' = stack_pop(dependency_stack).stack
         /\ store' = add(store, stack_pop(dependency_stack).popped[1], o.val).store
         /\ current_goal' = stack_pop(dependency_stack).popped[1]
         /\ Invoke(o)
    /\ UNCHANGED << task, goal, seeded, result, call >>

\* The Ok arm, were it to read the top of the stack without taking it off.
SolveOkPop_KeepsStack ==
    /\ result = Running
    /\ \E o \in Task_solve(task, current_goal, store) :
         /\ o.tag = "Ok"
         /\ stack_pop(dependency_stack).popped # None
         /\ store' = add(store, current_goal, o.val).store
         /\ current_goal' = stack_pop(dependency_stack).popped[1]
         /\ Invoke(o)
    /\ UNCHANGED << task, goal, seeded, dependency_stack, result, call >>

\* Ok(solution), dependency_stack.pop() is Some(dependent_goal):
\* store.add(current_goal, solution); current_goal = dependent_goal
SolveOkPop ==
    /\ result = Running
    /\ \E o \in Task_solve(task, current_goal, store) :
         /\ o.tag = "Ok"
         /\ stack_pop(dependency_stack).popped # None
         /\ dependency_stack' = stack_pop(dependency_stack).stack
         /\ store' = add(store, current_goal, o.val).store
         /\ current_goal' = stack_pop(dependency_stack).popped[1]
         /\ Invoke(o)
    /\ UNCHANGED << task, goal, seeded, result, call >>

\* The Error arm, were it to go round the loop again.
SolveError_Retry ==
    /\ result = Running
    /\ \E o \in Task_solve(task, current_goal, store) :
         /\ o.tag = "Error"
         /\ Invoke(o)
    /\ UNCHANGED << task, goal, seeded, store, dependency_stack, current_goal, result, call >>

\* Err(TaskInterrupt::Error(err)): break Err(DynamicError::Error(err))
SolveError ==
    /\ result = Running
    /\ \E o \in Task_solve(task, current_goal, store) :
         /\ o.tag = "Error"
         /\ result' = [tag |-> "Error", val |-> o.val]
         /\ Invoke(o)
    /\ UNCHANGED << task, goal, seeded, store, dependency_stack, current_goal, call >>

\* The circular arm, were it to break with the Error variant.
SolveDependencyCircular_AsError ==
    /\ result = Running
    /\ \E o \in Task_solve(task, current_goal, store) :
         /\ o.tag = "Dependency"
         /\ dependency_stack' = stack_push(dependency_stack, current_goal)
         /\ stack_contains(dependency_stack', o.val)
         /\ result' = [tag |-> "Error", val |-> o.val]
         /\ Invoke(o)
    /\ UNCHANGED << task, goal, seeded, store, current_goal, call >>

\* The circular arm, were it to report the goal that asked instead of the
\* sub-goal it asked for.
SolveDependencyCircular_ReportsCurrent ==
    /\ result = Running
    /\ \E o \in Task_solve(task, current_goal, store) :
         /\ o.tag = "Dependency"
         /\ dependency_stack' = stack_push(dependency_stack, current_goal)
         /\ stack_contains(dependency_stack', o.val)
         /\ result' = [tag |-> "CircularDependency", val |-> current_goal]
         /\ Invoke(o)
    /\ UNCHANGED << task, goal, seeded, store, current_goal, call >>

\* Err(Dependency { key: subgoal }): push current_goal; the stack contains
\* subgoal: break Err(DynamicError::CircularDependency(subgoal))
SolveDependencyCircular ==
    /\ result = Running
    /\ \E o \in Task_solve(task, current_goal, store) :
         /\ o.tag = "Dependency"
         /\ dependency_stack' = stack_push(dependency_stack, current_goal)
         /\ stack_contains(dependency_stack', o.val)
         /\ result' = [tag |-> "CircularDependency", val |-> o.val]
         /\ Invoke(o)
    /\ UNCHANGED << task, goal, seeded, store, current_goal, call >>

\* The Dependency arm, were it to go round the loop again with the same goal.
SolveDependencyDescend_Retry ==
    /\ result = Running
    /\ \E o \in Task_solve(task, current_goal, store) :
         /\ o.tag = "Dependency"
         /\ ~ stack_contains(stack_push(dependency_stack, current_goal), o.val)
         /\ Invoke(o)
    /\ UNCHANGED << task, goal, seeded, store, dependency_stack, current_goal, result, call >>

\* The Dependency arm, were it to descend without pushing the current goal.
SolveDependencyDescend_NoPush ==
    /\ result = Running
    /\ \E o \in Task_solve(task, current_goal, store) :
         /\ o.tag = "Dependency"
         /\ ~ stack_contains(stack_push(dependency_stack, current_goal), o.val)
         /\ current_goal' = o.val
         /\ Invoke(o)
    /\ UNCHANGED << task, goal, seeded, store, dependency_stack, result, call >>

\* Err(Dependency { key: subgoal }): push current_goal; the stack does not
\* contain subgoal: current_goal = subgoal
SolveDependencyDescend ==
    /\ result = Running
    /\ \E o \in Task_solve(task, current_goal, store) :
         /\ o.tag = "Dependency"
         /\ dependency_stack' = stack_push(dependency_stack, current_goal)
         /\ ~ stack_contains(dependency_stack', o.val)
         /\ current_goal' = o.val
         /\ Invoke(o)
    /\ UNCHANGED << task, goal, seeded, store, result, call >>

\* One iteration of execute's loop.
Next ==
    \/ SolveOkReturn
    \/ SolveOkPop
    \/ SolveError
    \/ SolveDependencyCircular
    \/ SolveDependencyDescend

Spec == Init /\ [][Next]_vars

\* The loop runs on: nothing but a `break` ends it.
FairSpec == Spec /\ WF_vars(Next)

\* ------------------------------------------------------- Task::solve_all
\* Default, were it to build a store that already holds an entry.
S_default_Seeded == [k \in {SHINY_GOLD} |-> 0]

\* S::default() for the store types in use, HashMap and BTreeMap: no entry.
S_default == [k \in {} |-> 0]

\* solve_all(goal): execute(goal, self, S::default()), up to execute's loop.
SolveAllInit ==
    /\ \/ task = [kind |-> "fib", rules |-> EmptyStore] /\ goal \in Keys
       \/ /\ \E D \in SUBSET Bags : \E inner \in [D -> SUBSET Bags] :
                task = [kind |-> "day7", rules |-> Rules(D, inner)]
          /\ goal = SHINY_GOLD
       \/ task = [kind |-> "any", rules |-> EmptyStore] /\ goal \in Bags
    /\ seeded = S_default
    /\ store = seeded
    /\ dependency_stack = << >>
    /\ current_goal = goal
    /\ result = Running
    /\ last = NoLast
    /\ calls = [k \in Keys |-> 0]
    /\ okCount = [k \in Keys |-> 0]
    /\ adds = [k \in Keys |-> 0]
    /\ requested = [k \in Keys |-> << >>]
    /\ solved = [k \in Keys |-> None]
    /\ call = NoCall

SolveAllSpec == SolveAllInit /\ [][Next]_vars

\* --------------------------------------------- the store and the subtasker
\* A store built by add calls from an empty one, and a Subtasker around it
\* whose methods are called directly.
SeqsUpTo(S, n) == UNION { [1 .. m -> S] : m \in 0 .. n }

StoreInit ==
    /\ task = NoTask
    /\ goal = NoKey
    /\ seeded = EmptyStore
    /\ store = EmptyStore
    /\ dependency_stack = << >>
    /\ current_goal = NoKey
    /\ result = Running
    /\ last = NoLast
    /\ calls = [k \in Keys |-> 0]
    /\ okCount = [k \in Keys |-> 0]
    /\ adds = [k \in Keys |-> 0]
    /\ requested = [k \in Keys |-> << >>]
    /\ solved = [k \in Keys |-> None]
    /\ call = NoCall

Frame == UNCHANGED << task, goal, seeded, dependency_stack, current_goal, result,
                      last, calls, okCount, adds, requested, solved >>

\* store.add(goal, solution)
CallAdd ==
    \E k \in Bags, v \in Vals :
       /\ store' = add(store, k, v).store
       /\ call' = [op |-> "add", goal |-> k, val |-> v, ret |-> add(store, k, v).old,
                   before |-> store]
       /\ Frame

\* subtasker.precheck(goals): &self, the store is only read
CallPrecheck ==
    \E goals \in SeqsUpTo(Bags, MaxLen) :
       /\ call' = [op |-> "precheck", goals |-> goals,
                   ret |-> Subtasker_precheck(store, goals), before |-> store]
       /\ UNCHANGED store
       /\ Frame

\* subtasker.solve(goal): &self, the store is only read
CallSolve ==
    \E k \in Bags :
       /\ call' = [op |-> "solve", goal |-> k, ret |-> Subtasker_solve(store, k),
                   before |-> store]
       /\ UNCHANGED store
       /\ Frame

\* store.get(&goal)
CallGet ==
    \E k \in Bags :
       /\ call' = [op |-> "get", goal |-> k, ret |-> get(store, k), before |-> store]
       /\ UNCHANGED store
       /\ Frame

\* store.contains(&goal)
CallContains ==
    \E k \in Bags :
       /\ call' = [op |-> "contains", goal |-> k, ret |-> contains(store, k),
                   before |-> store]
       /\ UNCHANGED store
       /\ Frame

StoreNext == CallAdd \/ CallPrecheck \/ CallSolve \/ CallGet \/ CallContains

StoreSpec == StoreInit /\ [][StoreNext]_vars

\* ------------------------------------------------------ day14: parse_mask
\* An i64 that is not negative is the set of the positions of its 1 bits:
\* 1i64 << n is {n}, a | b is the union, a >> 1 moves every bit one down.
Shl1(n) == {n}
Shr1(a) == { i - 1 : i \in { j \in a : j >= 1 } }
BitOr(a, b) == a \cup b

\* fold_many_m_n(36, 36, ..) and the 36 of 1i64 << 36
MaskLen == 36
MaskTop == 36

\* parse_mask_bit: alt((char('X'), char('0'), char('1'))) on the first character
parse_mask_bit(input) ==
    IF input = << >>
    THEN [ok |-> FALSE, bit |-> "none", rest |-> input]
    ELSE CASE Head(input) = "X" -> [ok |-> TRUE, bit |-> "Ignore", rest |-> Tail(input)]
           [] Head(input) = "0" -> [ok |-> TRUE, bit |-> "Clear", rest |-> Tail(input)]
           [] Head(input) = "1" -> [ok |-> TRUE, bit |-> "Set", rest |-> Tail(input)]
           [] OTHER -> [ok |-> FALSE, bit |-> "none", rest |-> input]

\* The fold closure, were it to use idx before shifting it.
mask_fold_ShiftAfter(acc, maskbit) ==
    [mask |-> IF maskbit = "Ignore" THEN BitOr(acc.mask, acc.idx) ELSE acc.mask,
     setting |-> IF maskbit = "Set" THEN BitOr(acc.setting, acc.idx) ELSE acc.setting,
     idx |-> Shr1(acc.idx)]

\* The fold closure of parse_mask: idx >> 1, then mask |= idx or setting |= idx.
mask_fold(acc, maskbit) ==
    LET idx == Shr1(acc.idx)
    IN  [mask |-> IF maskbit = "Ignore" THEN BitOr(acc.mask, idx) ELSE acc.mask,
         setting |-> IF maskbit = "Set" THEN BitOr(acc.setting, idx) ELSE acc.setting,
         idx |-> idx]

\* nom's fold_many_m_n(min, max, parse_mask_bit, init, fold) after its first
\* count iterations: each takes one item and folds it in; a parser error
\* before min items is an error, after it ends the fold.
RECURSIVE fold_many_m_n(_, _, _, _, _)
fold_many_m_n(min, max, input, init, count) ==
    IF count = 0
    THEN [state |-> "more", value |-> init, rest |-> input]
    ELSE LET prev == fold_many_m_n(min, max, input, init, count - 1)
             r == parse_mask_bit(prev.rest)
         IN  IF prev.state # "more"
             THEN prev
             ELSE IF r.ok
                  THEN [state |-> "more", value |-> mask_fold(prev.value, r.bit),
                        rest |-> r.rest]
                  ELSE [state |-> IF count - 1 < min THEN "error" ELSE "done",
                        value |-> prev.value, rest |-> prev.rest]

\* parse_mask: the fold from (Mask::default(), 1i64 << 36), mapped to the Mask
parse_mask(input) ==
    LET r == fold_many_m_n(MaskLen, MaskLen, input,
                           [mask |-> {}, setting |-> {}, idx |-> Shl1(MaskTop)], MaskLen)
    IN  [ok |-> r.state # "error", mask |-> r.value.mask, setting |-> r.value.setting,
         rest |-> r.rest]

\* The text of test_parse_mask.
TestMaskText ==
    [i \in 1 .. 36 |->
        IF i <= 24 THEN "X"
        ELSE << "0", "1", "0", "1", "0", "1", "0", "1", "X", "X", "0", "1" >>[i - 24]]

\* A mask text is handed to parse_mask: the test's text, or a text of 35 to
\* 37 characters that repeats a short pattern, one position set freely.
MaskInit ==
    /\ task = NoTask
    /\ goal = NoKey
    /\ seeded = EmptyStore
    /\ store = EmptyStore
    /\ dependency_stack = << >>
    /\ current_goal = NoKey
    /\ result = Running
    /\ last = NoLast
    /\ calls = [k \in Keys |-> 0]
    /\ okCount = [k \in Keys |-> 0]
    /\ adds = [k \in Keys |-> 0]
    /\ requested = [k \in Keys |-> << >>]
    /\ solved = [k \in Keys |-> None]
    /\ \/ call = [op |-> "text", input |-> TestMaskText]
       \/ \E n \in {MaskLen - 1, MaskLen, MaskLen + 1}, p \in 1 .. MaxPeriod :
            \E pat \in [1 .. p -> {"X", "0", "1"}], pos \in 1 .. n, c \in {"X", "0", "1"} :
               call = [op |-> "text",
                       input |-> [i \in 1 .. n |->
                                    IF i = pos THEN c ELSE pat[((i - 1) % p) + 1]]]

\* parse_mask(input)
ParseMask ==
    /\ call.op = "text"
    /\ call' = [op |-> "parse_mask", input |-> call.input, ret |-> parse_mask(call.input)]
    /\ UNCHANGED store
    /\ Frame

MaskNext == ParseMask

MaskSpec == MaskInit /\ [][MaskNext]_vars

\* ------------------------------------------------ reference definitions
\* Plain recursive evaluation of the Fibonacci definition.
RECURSIVE Fib(_)
Fib(n) == IF n <= 1 THEN n ELSE Fib(n - 1) + Fib(n - 2)

\* The sub-goals a bag's rule names, and the bags reachable from a set.
Succ(rules, b) == IF b \in DOMAIN rules THEN DOMAIN rules[b] ELSE {}

RECURSIVE ReachFrom(_, _)
ReachFrom(rules, S) ==
    LET T == S \cup UNION { Succ(rules, b) : b \in S }
    IN  IF T = S THEN S ELSE ReachFrom(rules, T)

Acyclic(rules, g) ==
    \A b \in ReachFrom(rules, {g}) : b \notin ReachFrom(rules, Succ(rules, b))

AllRules(rules, g) == ReachFrom(rules, {g}) \subseteq DOMAIN rules

\* day7's plain recursive count of the bags inside a bag.
RECURSIVE get_total_bag_count(_, _)
RECURSIVE SumContents(_, _, _)
get_total_bag_count(bag, rules) == SumContents(bag, rules, DOMAIN rules[bag])

SumContents(bag, rules, S) ==
    IF S = {}
    THEN 0
    ELSE LET i == CHOOSE x \in S : TRUE
         IN  (get_total_bag_count(i, rules) + 1) * rules[bag][i]
               + SumContents(bag, rules, S \ {i})

\* The run is of a deterministic task whose sub-goal relation is a DAG.
DagRelation ==
    \/ task.kind = "fib"
    \/ task.kind = "day7" /\ Acyclic(task.rules, goal)

\* ... and in which no goal is answered with an Error.
DagNoError ==
    \/ task.kind = "fib"
    \/ task.kind = "day7" /\ Acyclic(task.rules, goal) /\ AllRules(task.rules, goal)

Done == result # Running

\* ----------------------------------------------------------------- claims
\* C1: run from an empty store on a deterministic task whose sub-goal
\* relation is a DAG, execute ends with Ok(v), v the value plain recursive
\* evaluation of the same definition gives: Fib(goal) for the Fibonacci
\* task (55 for goal 10), the recursive bag count for day7's rules.
C1_MemoizationCorrect ==
    (Done /\ seeded = EmptyStore) =>
        /\ task.kind = "fib" =>
              /\ result = [tag |-> "Ok", val |-> Fib(goal)]
              /\ goal = 10 => result.val = 55
        /\ (task.kind = "day7" /\ DagNoError) =>
              result = [tag |-> "Ok", val |-> get_total_bag_count(goal, task.rules)]

C1_Witness ==
    /\ task.kind = "fib" /\ goal = 10 /\ seeded = EmptyStore
    /\ result = [tag |-> "Ok", val |-> 55]

\* C2 as stated: after execute(10, fib_task, empty store) has returned Ok,
\* the store has an entry for every key of 0..10, the goal 10 included.
C2_Original ==
    (task.kind = "fib" /\ goal = 10 /\ result.tag = "Ok") =>
        \A k \in 0 .. 10 : k \in DOMAIN store

\* C2 amended: after execute(goal, fib_task, empty store) has returned Ok
\* the store holds Fib(k) for every goal k evaluated during the run except
\* the initial goal, whose solution is returned without being recorded:
\* for goal 10 the store's keys are exactly 0..9.
C2_StoreAfterFib ==
    (task.kind = "fib" /\ result.tag = "Ok") =>
        /\ DOMAIN store = { k \in Keys : calls[k] > 0 } \ {goal}
        /\ \A k \in DOMAIN store : store[k] = Fib(k)
        /\ goal = 10 => DOMAIN store = 0 .. 9

C2_Witness ==
    /\ task.kind = "fib" /\ goal = 10 /\ result.tag = "Ok"
    /\ DOMAIN store = 0 .. 9
    /\ calls[10] > 0

\* C3: within one execute call no goal's task.solve returns Ok twice, and
\* when execute returns Ok every goal task.solve was invoked on has
\* returned Ok exactly once.
C3_AtMostOnce ==
    /\ \A k \in Keys : okCount[k] <= 1
    /\ result.tag = "Ok" => \A k \in Keys : calls[k] > 0 => okCount[k] = 1

C3_Witness ==
    /\ result.tag = "Ok"
    /\ \E k \in Keys : calls[k] >= 3 /\ okCount[k] = 1
    /\ Cardinality({ k \in Keys : okCount[k] = 1 }) >= 3

\* The day7 rules in which A = 0 requests B = 1, B requests C = 2 and C
\* requests A.
CycleABC == Rules({0, 1, 2}, [b \in {0, 1, 2} |-> {(b + 1) % 3}])

\* C4: when task.solve asks for a sub-goal that is already in the
\* dependency stack, execute returns Err(CircularDependency(sub_goal)) with
\* that very key; on the cycle A -> B -> C -> A, execute(A) from an empty
\* store returns Err(CircularDependency(A)).
C4_CircularDetected ==
    /\ (last.tag = "Dependency" /\ stack_contains(last.stack, last.val)) =>
          result = [tag |-> "CircularDependency", val |-> last.val]
    /\ (task.kind = "day7" /\ task.rules = CycleABC /\ goal = 0 /\ Done) =>
          result = [tag |-> "CircularDependency", val |-> 0]

C4_Witness ==
    /\ task.kind = "day7" /\ task.rules = CycleABC /\ goal = 0
    /\ last.stack = << 0, 1 >> /\ last.goal = 2 /\ last.val = 0
    /\ result = [tag |-> "CircularDependency", val |-> 0]

\* C5 as stated: on a task whose sub-goal relation is a DAG, execute ends
\* with Ok.
C5_Original == (DagRelation /\ Done) => result.tag = "Ok"

\* C5 amended: on a deterministic task whose sub-goal relation is a DAG and
\* whose task.solve returns Error for none of the reachable goals, execute
\* eventually terminates and its result is Ok.
C5_Termination == DagNoError ~> (result.tag = "Ok")

C5_Witness ==
    /\ task.kind = "day7" /\ DagNoError /\ result.tag = "Ok"
    /\ Cardinality(DOMAIN store) >= 2

\* C6: when task.solve returns Error(e), execute returns Err(Error(e)) with
\* the same e at once: that invocation is the last one (no step is ever
\* taken after a result), and the store then holds, beyond the entries it
\* was seeded with, only solutions of goals whose task.solve returned Ok,
\* none of them for the failing goal or a goal waiting in the stack.
StoreOnlyResolved ==
    /\ \A k \in DOMAIN store :
          \/ k \in DOMAIN seeded /\ store[k] = seeded[k]
          \/ okCount[k] >= 1
    /\ \A k \in {last.goal} \cup Range(dependency_stack) :
          k \in DOMAIN store => (k \in DOMAIN seeded /\ okCount[k] = 0)

C6_ErrorPropagation ==
    /\ [](last.tag = "Error" =>
            /\ result = [tag |-> "Error", val |-> last.val]
            /\ StoreOnlyResolved)
    /\ [](result.tag = "Error" => (last.tag = "Error" /\ result.val = last.val))
    /\ [][result = Running]_vars

C6_Witness ==
    /\ result.tag = "Error" /\ last.tag = "Error"
    /\ Len(dependency_stack) >= 1 /\ last.goal # goal
    /\ DOMAIN store # DOMAIN seeded /\ seeded # EmptyStore

\* C7: with a store that already holds a solution for the initial goal,
\* execute does not end before task.solve has been invoked on the initial
\* goal, and an Ok it returns carries the value task.solve just produced
\* for the initial goal, whatever the seeded entry is.
C7_NoBypass ==
    (goal \in DOMAIN seeded /\ Done) =>
        /\ calls[goal] >= 1
        /\ result.tag = "Ok" =>
              (last.goal = goal /\ last.tag = "Ok" /\ result.val = last.val)

C7_Witness ==
    /\ goal \in DOMAIN seeded /\ result.tag = "Ok"
    /\ result.val # seeded[goal] /\ store[goal] = seeded[goal]

\* C8: precheck(goals) returns Ok exactly when the store has every goal of
\* the sequence; otherwise it returns a Dependency on the first goal, in
\* iteration order, that the store lacks, having looked at no later goal;
\* the store is what it was before the call.
C8_Precheck ==
    call.op = "precheck" =>
        /\ call.ret.tag = "Ok" <=>
              \A i \in DOMAIN call.goals : call.goals[i] \in DOMAIN call.before
        /\ call.ret.tag = "Ok" => call.ret.examined = Len(call.goals)
        /\ call.ret.tag # "Ok" =>
              /\ call.ret.tag = "Dependency"
              /\ \E i \in DOMAIN call.goals :
                    /\ call.ret.key = call.goals[i]
                    /\ call.goals[i] \notin DOMAIN call.before
                    /\ \A j \in 1 .. (i - 1) : call.goals[j] \in DOMAIN call.before
                    /\ call.ret.examined = i
        /\ store = call.before

C8_Witness ==
    /\ call.op = "precheck" /\ call.ret.tag = "Dependency"
    /\ Len(call.goals) = 2 /\ call.ret.examined = 1
    /\ call.goals[2] \notin DOMAIN store /\ call.goals[2] # call.goals[1]
    /\ store # EmptyStore

\* C9: Day7Solver, which prechecks all its sub-goals before it accumulates
\* anything, accumulates only in an invocation in which all of them are
\* solved; an invocation with an unsolved sub-goal ends with a Dependency
\* on the first unsolved one in its iteration order and has accumulated
\* nothing; so each accumulation step of a goal runs exactly once.
C9_PrecheckShortCircuit ==
    task.kind = "day7" =>
        /\ last.tag = "Dependency" =>
              /\ last.adds = 0
              /\ \E i \in DOMAIN last.order :
                    /\ last.order[i] = last.val
                    /\ last.val \notin DOMAIN last.store
                    /\ \A j \in 1 .. (i - 1) : last.order[j] \in DOMAIN last.store
        /\ last.adds > 0 =>
              /\ last.tag = "Ok"
              /\ \A k \in Range(last.order) : k \in DOMAIN last.store
        /\ \A g \in Bags :
              adds[g] = IF okCount[g] >= 1 THEN Cardinality(DOMAIN task.rules[g]) ELSE 0

C9_Witness ==
    /\ task.kind = "day7" /\ result.tag = "Ok"
    /\ calls[goal] = 3 /\ adds[goal] = 2 /\ last.adds = 2

\* C10: subtasker.solve(sub_goal) returns the value the store holds for
\* sub_goal when it holds one, and otherwise a Dependency carrying exactly
\* sub_goal; the store is what it was before the call.
C10_SubtaskerSolve ==
    call.op = "solve" =>
        /\ call.goal \in DOMAIN call.before =>
              call.ret = [tag |-> "Ok", val |-> call.before[call.goal]]
        /\ call.goal \notin DOMAIN call.before =>
              call.ret = [tag |-> "Dependency", val |-> call.goal]
        /\ store = call.before

C10_Witness ==
    /\ call.op = "solve" /\ call.ret.tag = "Ok" /\ call.ret.val = 1
    /\ Cardinality(DOMAIN store) >= 2

\* C11: after store.add(goal, solution), get(goal) yields solution; the call
\* returned the previous value when the goal had an entry and nothing when
\* it had none; the entries of all other keys are what they were (one map
\* semantics stands for the HashMap and the BTreeMap store: both insert).
C11_StoreAdd ==
    call.op = "add" =>
        /\ get(store, call.goal) = Some(call.val)
        /\ call.goal \in DOMAIN call.before => call.ret = Some(call.before[call.goal])
        /\ call.goal \notin DOMAIN call.before => call.ret = None
        /\ DOMAIN store = DOMAIN call.before \cup {call.goal}
        /\ \A k \in DOMAIN store \ {call.goal} : store[k] = call.before[k]

C11_Witness ==
    /\ call.op = "add" /\ call.ret = Some(0) /\ call.val = 1
    /\ Cardinality(DOMAIN store) >= 2

\* C12: on a store built by any sequence of add calls, contains(k) answers
\* true exactly when get(k) returns a value.
C12_ContainsIffGet ==
    /\ call.op = "contains" => (call.ret <=> get(store, call.goal) # None)
    /\ call.op = "get" => (call.ret # None <=> contains(store, call.goal))

C12_Witness ==
    /\ call.op = "contains" /\ call.ret = FALSE
    /\ Cardinality(DOMAIN store) >= 2

\* C13: during execute an entry of the store is never removed and never
\* overwritten: every iteration keeps the entries the store had before it,
\* the seeded entries are kept to the end, and the add of the Ok arm is
\* always for a goal without an entry, so it returns no previous value.
C13_StoreNeverOverwritten ==
    /\ \A k \in DOMAIN last.store : k \in DOMAIN store /\ store[k] = last.store[k]
    /\ \A k \in DOMAIN seeded : k \in DOMAIN store /\ store[k] = seeded[k]
    /\ (last.tag = "Ok" /\ last.stack # << >>) =>
          /\ last.goal \notin DOMAIN last.store
          /\ add(last.store, last.goal, last.val).old = None

C13_Witness ==
    /\ task.kind = "any" /\ result.tag = "Ok"
    /\ goal \in DOMAIN seeded
    /\ Cardinality(DOMAIN store \ DOMAIN seeded) >= 2

\* C14: within one execute call, task.solve is invoked on a goal at most
\* (number of distinct sub-goals the goal was told are missing) + 1 times.
C14_InvocationBound ==
    \A g \in Keys : calls[g] <= Cardinality(Range(requested[g])) + 1

C14_Witness ==
    /\ result.tag = "Ok"
    /\ \E g \in Keys : calls[g] = 3 /\ Cardinality(Range(requested[g])) = 2

\* C15: for a 36-character text over {X, 0, 1}, parse_mask consumes the
\* whole text; with the first character as bit 35 and the last as bit 0,
\* mask has a bit set exactly at the X positions and setting exactly at the
\* 1 positions, so the two share no bit; on the text of test_parse_mask the
\* result is the Mask the test expects.
C15_ParseMask ==
    (call.op = "parse_mask" /\ Len(call.input) = 36) =>
        /\ call.ret.ok /\ call.ret.rest = << >>
        /\ call.ret.mask = { 36 - i : i \in { j \in 1 .. 36 : call.input[j] = "X" } }
        /\ call.ret.setting = { 36 - i : i \in { j \in 1 .. 36 : call.input[j] = "1" } }
        /\ call.ret.mask \cap call.ret.setting = {}
        /\ call.input = TestMaskText =>
              /\ call.ret.mask = (12 .. 35) \cup {2, 3}
              /\ call.ret.setting = {0, 4, 6, 8, 10}

C15_Witness ==
    /\ call.op = "parse_mask" /\ Len(call.input) = 36
    /\ call.input[1] = "1" /\ call.input[36] = "X" /\ call.input[2] = "0"
    /\ 35 \in call.ret.setting /\ 0 \in call.ret.mask

\* C16: when task.solve(current_goal) returns Ok(v) and the dependency stack
\* is not empty, the executor pops exactly the top goal, which becomes the
\* current goal, records (current_goal, v) in the store, leaves the rest of
\* the stack and every other store entry as they were, and the loop goes on.
C16_OkPop ==
    (last.tag = "Ok" /\ last.stack # << >>) =>
        /\ dependency_stack = SubSeq(last.stack, 1, Len(last.stack) - 1)
        /\ current_goal = last.stack[Len(last.stack)]
        /\ DOMAIN store = DOMAIN last.store \cup {last.goal}
        /\ store[last.goal] = last.val
        /\ \A k \in DOMAIN store \ {last.goal} : store[k] = last.store[k]
        /\ result = Running

C16_Witness ==
    /\ last.tag = "Ok" /\ Len(last.stack) >= 2
    /\ last.store # EmptyStore
    /\ current_goal # goal

\* C17: execute returns Ok(v) only when task.solve succeeds with the
\* dependency stack empty; the current goal is then the caller's goal, v is
\* the value task.solve just returned for it, and the store is not changed
\* by that last step.
C17_OkReturn ==
    result.tag = "Ok" =>
        /\ last.tag = "Ok" /\ last.stack = << >>
        /\ last.goal = goal /\ current_goal = goal
        /\ result.val = last.val
        /\ store = last.store
        /\ dependency_stack = << >>

C17_Witness ==
    /\ result.tag = "Ok"
    /\ store # seeded
    /\ calls[goal] >= 2

\* C18: when task.solve(current_goal) returns Dependency(sub_goal) and
\* sub_goal is not in the stack once current_goal is pushed, the stack
\* grows by exactly current_goal on top, sub_goal becomes the current goal,
\* the store is unchanged and the loop goes on.
C18_DependencyDescend ==
    (last.tag = "Dependency" /\ last.val \notin Range(last.stack) \cup {last.goal}) =>
        /\ dependency_stack = Append(last.stack, last.goal)
        /\ current_goal = last.val
        /\ store = last.store
        /\ result = Running

C18_Witness ==
    /\ last.tag = "Dependency" /\ last.val \notin Range(last.stack) \cup {last.goal}
    /\ Len(last.stack) >= 1
    /\ last.store # EmptyStore

\* C19: when a goal popped from the dependency stack is attempted again, the
\* sub-goal its latest interrupt reported missing is the goal just solved
\* and is in the store; no goal is answered Dependency for the same
\* sub-goal twice.
C19_ResumeSatisfied ==
    /\ (last.tag = "Ok" /\ last.stack # << >>) =>
          /\ requested[current_goal] # << >>
          /\ requested[current_goal][Len(requested[current_goal])] = last.goal
          /\ last.goal \in DOMAIN store
    /\ \A g \in Keys : Len(requested[g]) = Cardinality(Range(requested[g]))

C19_Witness ==
    /\ last.tag = "Ok" /\ last.stack # << >>
    /\ Len(requested[current_goal]) >= 2
    /\ calls[current_goal] >= 2

\* C20: started with an empty store, neither the current goal nor any goal
\* in the dependency stack is ever in the store; with a store the caller
\* filled, the only goal in progress that can be in the store is the
\* caller's goal.
C20_InProgressNotStored ==
    \A k \in {current_goal} \cup Range(dependency_stack) :
        k \in DOMAIN store => (k = goal /\ goal \in DOMAIN seeded)

C20_Witness ==
    /\ goal \in DOMAIN seeded
    /\ Len(dependency_stack) >= 1
    /\ dependency_stack[1] = goal
    /\ DOMAIN store # DOMAIN seeded
    /\ result = Running

\* C21: a goal that asks for itself while it has no solution in the store
\* makes execute return Err(CircularDependency(goal)) whatever the stack
\* holds, the empty stack of the initial goal included: the current goal
\* is pushed before the stack is searched.
C21_SelfDependency ==
    (last.tag = "Dependency" /\ last.val = last.goal) =>
        /\ last.goal \notin DOMAIN last.store
        /\ result = [tag |-> "CircularDependency", val |-> last.goal]
        /\ dependency_stack = Append(last.stack, last.goal)

C21_Witness ==
    /\ last.tag = "Dependency" /\ last.val = last.goal
    /\ last.stack = << >> /\ last.goal = goal
    /\ result = [tag |-> "CircularDependency", val |-> goal]

\* The run is of Day7Solver, started on an empty store, every reachable bag
\* has a rule (no goal returns Error; a bag succeeds only once all the bags
\* of its rule are solved) and a cycle of rules is reachable from the goal.
CycleReachable ==
    /\ task.kind = "day7" /\ seeded = EmptyStore
    /\ AllRules(task.rules, goal)
    /\ ~ Acyclic(task.rules, goal)

\* C22: from an empty store, on a task whose goals succeed only after all
\* their sub-goals are solved and none of whose goals returns Error, a
\* dependency cycle reachable from the initial goal makes execute return
\* Err(CircularDependency(k)) for a key k: it never returns Ok (or Error)
\* and does not loop forever.
C22_CycleDetectionComplete ==
    /\ [](CycleReachable => result.tag \notin {"Ok", "Error"})
    /\ CycleReachable ~> (result.tag = "CircularDependency" /\ result.val \in Bags)

C22_Witness ==
    /\ CycleReachable
    /\ result.tag = "CircularDependency"
    /\ goal \notin Range(SubSeq(dependency_stack, 2, Len(dependency_stack)))
    /\ result.val # goal
    /\ DOMAIN store # {}

\* C23: whatever the task over a finite key set (cyclic or not,
\* deterministic or not) and whatever the store it starts from, execute
\* terminates, with Ok(value), Err(Error(e)) or Err(CircularDependency(k))
\* and nothing else, and that result is final.
C23_AlwaysTerminates ==
    /\ [](result = Running \/ result.tag \in {"Ok", "Error", "CircularDependency"})
    /\ <>(result.tag \in {"Ok", "Error", "CircularDependency"})
    /\ [][result = Running]_vars

C23_Witness ==
    /\ task.kind = "any" /\ seeded # EmptyStore
    /\ result.tag = "Ok"
    /\ \E k \in Bags : calls[k] >= 3
    /\ DOMAIN store # DOMAIN seeded

\* The number of distinct goal keys of the problem: 0..goal for the
\* Fibonacci task, the bags reachable from the goal for day7, every key for
\* the arbitrary task.
NumGoals ==
    CASE task.kind = "fib" -> goal + 1
      [] task.kind = "day7" -> Cardinality(ReachFrom(task.rules, {goal}))
      [] OTHER -> Cardinality(Bags)

\* C24: throughout an execute call the dependency stack is never longer
\* than the number of distinct goal keys of the problem, and the entries
\* the executor has added to the store are never more than that number.
C24_ResourceBound ==
    /\ Len(dependency_stack) <= NumGoals
    /\ Cardinality(DOMAIN store \ DOMAIN seeded) <= NumGoals
    /\ Cardinality({ k \in Keys : okCount[k] >= 1 }) <= NumGoals

C24_Witness ==
    /\ NumGoals >= 3
    /\ Len(dependency_stack) = NumGoals
    /\ Cardinality(DOMAIN store \ DOMAIN seeded) = 0

\* C25: a goal whose solution is in the store, seeded or recorded earlier in
\* the run, and that is not the initial goal is never passed to task.solve:
\* the subtasker answers a request for it from the store, a Dependency
\* never names it, and it does not become the current goal.
C25_StoredGoalNotSolved ==
    /\ (last.tag # "none" /\ last.goal \in DOMAIN last.store) => last.goal = goal
    /\ last.tag = "Dependency" => last.val \notin DOMAIN last.store
    /\ current_goal \in DOMAIN store => current_goal = goal
    /\ \A k \in DOMAIN store : Subtasker_solve(store, k) = [tag |-> "Ok", val |-> store[k]]
    /\ \A k \in DOMAIN seeded \ {goal} : calls[k] = 0

C25_Witness ==
    /\ result.tag = "Ok"
    /\ DOMAIN seeded \ {goal} # {}
    /\ DOMAIN store # DOMAIN seeded
    /\ \A k \in DOMAIN store \ {goal} : calls[k] = IF k \in DOMAIN seeded THEN 0 ELSE 1
    /\ calls[goal] >= 2

\* C26: at every iteration of execute's loop the dependency stack holds no
\* key twice and does not hold the current goal; when it is not empty its
\* bottom element is the caller's goal, and it is empty only while the
\* current goal is the caller's goal.
C26_StackShape ==
    result = Running =>
        /\ \A i, j \in DOMAIN dependency_stack :
              dependency_stack[i] = dependency_stack[j] => i = j
        /\ ~ stack_contains(dependency_stack, current_goal)
        /\ dependency_stack # << >> => dependency_stack[1] = goal
        /\ dependency_stack = << >> => current_goal = goal

C26_Witness ==
    /\ result = Running
    /\ Len(dependency_stack) >= 2
    /\ DOMAIN store # DOMAIN seeded
    /\ last.tag = "Ok"

\* The sub-goal a goal was most recently told is missing.
LastRequested(g) == requested[g][Len(requested[g])]

\* C27: execute returns Err(CircularDependency(k)) only when k lies on a
\* cycle of requests made during the run: the dependency stack is then a
\* chain in which each goal's latest missing dependency is the next goal,
\* k is in the chain, and the last goal of the chain has just asked for k.
C27_CircularSound ==
    result.tag = "CircularDependency" =>
        /\ dependency_stack # << >>
        /\ \A i \in DOMAIN dependency_stack :
              /\ requested[dependency_stack[i]] # << >>
              /\ LastRequested(dependency_stack[i]) =
                    IF i < Len(dependency_stack) THEN dependency_stack[i + 1] ELSE result.val
        /\ stack_contains(dependency_stack, result.val)
        /\ last.tag = "Dependency" /\ last.val = result.val
        /\ last.goal = dependency_stack[Len(dependency_stack)]

C27_Witness ==
    /\ result.tag = "CircularDependency"
    /\ Len(dependency_stack) >= 3
    /\ dependency_stack[2] = result.val
    /\ last.goal = dependency_stack[3]

\* C28: every entry (k, v) execute has added to the store carries the value
\* v returned by the one successful task.solve of k, and entries are added
\* in post-order: a goal is recorded only after every sub-goal it was told
\* is missing has been recorded.
C28_PostOrder ==
    /\ \A k \in DOMAIN store \ DOMAIN seeded :
          /\ okCount[k] = 1
          /\ solved[k] = Some(store[k])
          /\ Range(requested[k]) \subseteq DOMAIN store
    /\ (last.tag = "Ok" /\ last.stack # << >>) =>
          /\ last.goal \in DOMAIN store \ DOMAIN seeded
          /\ store[last.goal] = last.val
          /\ Range(requested[last.goal]) \subseteq DOMAIN last.store

C28_Witness ==
    /\ result.tag = "Ok"
    /\ \E k \in DOMAIN store \ DOMAIN seeded :
          /\ Cardinality(Range(requested[k])) >= 2
          /\ store[k] # 0
    /\ Cardinality(DOMAIN store \ DOMAIN seeded) >= 3

\* Init with the store the caller passes empty, the choice of the task
\* written as a test of the task.
ExecuteFromEmpty ==
    /\ task.kind \in {"fib", "day7", "any"}
    /\ task.kind = "fib" => (task.rules = EmptyStore /\ goal \in Keys)
    /\ task.kind = "day7" =>
          /\ DOMAIN task.rules \subseteq Bags
          /\ \A b \in DOMAIN task.rules : DOMAIN task.rules[b] \subseteq Bags
          /\ task.rules = Rules(DOMAIN task.rules,
                                [b \in DOMAIN task.rules |-> DOMAIN task.rules[b]])
          /\ goal = SHINY_GOLD
    /\ task.kind = "any" => (task.rules = EmptyStore /\ goal \in Bags)
    /\ seeded = EmptyStore
    /\ store = seeded
    /\ dependency_stack = << >>
    /\ current_goal = goal
    /\ result = Running
    /\ last = NoLast
    /\ calls = [k \in Keys |-> 0]
    /\ okCount = [k \in Keys |-> 0]
    /\ adds = [k \in Keys |-> 0]
    /\ requested = [k \in Keys |-> << >>]
    /\ solved = [k \in Keys |-> None]
    /\ call = NoCall

\* C29: Task::solve_all(goal) gives what execute(goal, task, empty store)
\* gives: it runs the executor on a default-constructed store, which is
\* empty, so every run of solve_all is, step by step, a run of execute
\* started on the empty store with the same task and goal.
C29_SolveAll == ExecuteFromEmpty /\ [][Next]_vars

C29_Witness ==
    /\ task.kind = "fib" /\ goal = 10
    /\ seeded = S_default /\ DOMAIN store = 0 .. 9
    /\ result = [tag |-> "Ok", val |-> 55]

====
